---- MODULE Spec2Model ----
(***************************************************************************)
(* A model of the Powershop API client                                    *)
(* (custom_components/powershop_nz/api.py): the token-API wrapper, the    *)
(* web login, the usage-report parser and the refresh cycle               *)
(* async_get_data.                                                         *)
(*                                                                         *)
(* Numbers: a Python float is modelled as an integer count of             *)
(* ten-thousandths (1.0 is 10000), so that /100 and *1000 are exact on    *)
(* the inputs used.                                                        *)
(* Text: a line of the report is a sequence of tokens; "\t" and "," are    *)
(* the delimiter tokens, " " is whitespace, every other token is an atom   *)
(* of cell text. A cell is the sequence of tokens between two delimiters.  *)
(***************************************************************************)
EXTENDS Integers, Sequences, FiniteSets, TLC

VARIABLES
    pc,             \* position of the refresh cycle (async_get_data)
    token,          \* self._token / self._secret: the pair the last login stored
    web_logged_in,  \* self._web_logged_in
    accounts,       \* the payload of GET accounts of this cycle
    accounts_log,   \* the replies the login and GET accounts of this cycle got
    month_label,    \* current_month_label of this cycle
    properties,     \* list of Property dicts, in listing order
    usages,         \* dict consumer_id -> usage payload or error marker
    rates_summary,  \* dict consumer_id -> rate summary
    idx,            \* index in `properties` of the property being fetched
    usage_log,      \* what each property's usage fetch returned or raised, by index
    rates_log,      \* whether each property's rate fetch and extraction raised, by index
    report_log,     \* what the report path of this cycle did
    csv_rows,       \* the rows the cycle got from async_get_usage_report
    result,         \* what async_get_data returned or raised
    text,           \* input of the parser run: the report text
    parsed,         \* output of the parser run
    payload,        \* input of the rate-summary run: rate payload and month
    special,        \* output of the rate-summary run
    web_calls,      \* the _web_login calls made so far, one record each
    api_ops         \* the token-API operations made so far, one record each

vars == <<pc, token, web_logged_in, accounts, accounts_log, month_label, properties, usages,
          rates_summary, idx, usage_log, rates_log, report_log, csv_rows,
          result, text, parsed, payload, special, web_calls, api_ops>>

None == "<None>"        \* Python's None where a string is expected (a key read with .get)

(***************************************************************************)
(* Sequence helpers                                                        *)
(***************************************************************************)
Rep(x, n) == [i \in 1..n |-> x]

SeqsUpTo(S, n) == UNION {[1..k -> S] : k \in 0..n}

Range(s) == {s[i] : i \in DOMAIN s}

\* list.index(x), 1-based; 0 stands for the ValueError of a missing element
IndexOf(s, x) == IF x \in Range(s) THEN CHOOSE i \in DOMAIN s : s[i] = x /\ \A j \in 1..(i-1) : s[j] # x
                 ELSE 0

(***************************************************************************)
(* Text of the usage report                                                *)
(***************************************************************************)
TAB == "\t"
COMMA == ","
SP == " "

IsSpace(t) == t \in {SP, TAB}

RECURSIVE LStrip(_)
LStrip(c) == IF c # <<>> /\ IsSpace(Head(c)) THEN LStrip(Tail(c)) ELSE c

RECURSIVE RStrip(_)
RStrip(c) == IF c # <<>> /\ IsSpace(c[Len(c)]) THEN RStrip(SubSeq(c, 1, Len(c) - 1)) ELSE c

\* str.strip()
Strip(c) == RStrip(LStrip(c))

\* str.split(d): the cells of a line, each a sequence of tokens; the line is
\* split in halves, the last cell of the left half continuing in the right half
RECURSIVE Split(_, _)
Split(s, d) ==
    IF Len(s) = 0 THEN <<<<>>>>
    ELSE IF Len(s) = 1 THEN (IF s[1] = d THEN <<<<>>, <<>>>> ELSE <<s>>)
    ELSE LET h == Len(s) \div 2
             l == Split(SubSeq(s, 1, h), d)
             r == Split(SubSeq(s, h + 1, Len(s)), d)
         IN  SubSeq(l, 1, Len(l) - 1) \o <<l[Len(l)] \o r[1]>> \o Tail(r)

\* d.join(cells)
RECURSIVE Join(_, _)
Join(cells, d) ==
    IF cells = <<>> THEN <<>>
    ELSE IF Len(cells) = 1 THEN cells[1]
    ELSE LET h == Len(cells) \div 2
         IN  Join(SubSeq(cells, 1, h), d) \o <<d>> \o Join(SubSeq(cells, h + 1, Len(cells)), d)

\* float(v) of a stripped cell: defined on the numeric atoms, ValueError elsewhere
FloatTable == [x \in {"0", "1.0", "2.5", "0.75"} |->
                 CASE x = "0" -> 0 [] x = "1.0" -> 10000
                   [] x = "2.5" -> 25000 [] x = "0.75" -> 7500]

IsNumeric(v) == Len(v) = 1 /\ v[1] \in DOMAIN FloatTable

FloatOf(v) == FloatTable[v[1]]

\* strptime(dstr, "%d/%m/%Y").date() and strptime(dstr, "%Y-%m-%d").date();
\* a date is the integer yyyymmdd
DmyTable == [x \in {"5/08/2025", "06/08/2025"} |->
               IF x = "5/08/2025" THEN 20250805 ELSE 20250806]

IsoTable == [x \in {"2025-08-05", "2025-08-04"} |->
               IF x = "2025-08-05" THEN 20250805 ELSE 20250804]

\* d.strftime("%Y-%m-%d")
DateIso(d) == CASE d = 20250804 -> "2025-08-04"
                [] d = 20250805 -> "2025-08-05"
                [] d = 20250806 -> "2025-08-06"

NSlots == 48

(***************************************************************************)
(* async_get_usage_report: the parser                                      *)
(***************************************************************************)
Cell(a) == <<a>>

HeaderNames == <<Cell("ICP"), Cell("Meter number"), Cell("Meter element"), Cell("Date")>>

\* the four header.index(...) of one split of the header: 0 where index raises
HeaderIndices(header) ==
    [icp |-> IndexOf(header, HeaderNames[1]),
     meter |-> IndexOf(header, HeaderNames[2]),
     element |-> IndexOf(header, HeaderNames[3]),
     date |-> IndexOf(header, HeaderNames[4])]

HeaderFound(ix) == ix.icp # 0 /\ ix.meter # 0 /\ ix.element # 0 /\ ix.date # 0

\* the column indices (1-based), by tab and, when a lookup raises, by comma
ResolveHeader(line) ==
    LET byTab == HeaderIndices(Split(line, TAB))
        byComma == HeaderIndices(Split(line, COMMA))
    IN  IF HeaderFound(byTab) THEN [ok |-> TRUE, cols |-> byTab]
        ELSE IF HeaderFound(byComma) THEN [ok |-> TRUE, cols |-> byComma]
        ELSE [ok |-> FALSE, exc |-> "ValueError"]

\* the date of a stripped cell: day/month/year, else year-month-day, else ValueError (0)
ParseDate(dstr) ==
    IF Len(dstr) = 1 /\ dstr[1] \in DOMAIN DmyTable THEN DmyTable[dstr[1]]
    ELSE IF Len(dstr) = 1 /\ dstr[1] \in DOMAIN IsoTable THEN IsoTable[dstr[1]]
    ELSE 0

\* a loop that skips the cells float() rejects as it skips the blank ones
ParseCells_SkipNonNumeric(cs) ==
    LET stripped == [i \in DOMAIN cs |-> Strip(cs[i])]
        kept == SelectSeq(stripped, LAMBDA v : IsNumeric(v))
    IN  [i \in DOMAIN kept |-> FloatOf(kept[i])]

\* the loop over parts[first_interval_idx:]: blank cells are skipped, a cell
\* float() rejects appends 0.0
ParseCells(cs) ==
    LET stripped == [i \in DOMAIN cs |-> Strip(cs[i])]
        kept == SelectSeq(stripped, LAMBDA v : v # <<>>)
    IN  [i \in DOMAIN kept |-> IF IsNumeric(kept[i]) THEN FloatOf(kept[i]) ELSE 0]

\* padding without the truncation of line 251
FitSlots_NoTruncate(vals) ==
    IF Len(vals) < NSlots THEN vals \o Rep(0, NSlots - Len(vals)) ELSE vals

\* a truncation that keeps the last 48 values, values_kwh[-48:]
FitSlots_KeepLast(vals) ==
    IF Len(vals) < NSlots THEN vals \o Rep(0, NSlots - Len(vals))
    ELSE IF Len(vals) > NSlots THEN SubSeq(vals, Len(vals) - NSlots + 1, Len(vals))
    ELSE vals

\* "Ensure exactly 48 slots"
FitSlots(vals) ==
    IF Len(vals) < NSlots THEN vals \o Rep(0, NSlots - Len(vals))
    ELSE IF Len(vals) > NSlots THEN SubSeq(vals, 1, NSlots)
    ELSE vals

SplitLine(ln) == IF TAB \in Range(ln) THEN Split(ln, TAB) ELSE Split(ln, COMMA)

\* one iteration of the loop over lines[1:]
ParseLine(ln, cols) ==
    LET parts == SplitLine(ln)
    IN  IF Len(parts) <= cols.date THEN [kind |-> "skip"]
        ELSE IF cols.icp > Len(parts) \/ cols.meter > Len(parts) \/ cols.element > Len(parts)
        THEN [kind |-> "raise", exc |-> "IndexError"]
        ELSE IF ParseDate(Strip(parts[cols.date])) = 0
        THEN [kind |-> "raise", exc |-> "ValueError"]
        ELSE [kind |-> "row",
              row |-> [icp |-> Strip(parts[cols.icp]),
                       meter_number |-> Strip(parts[cols.meter]),
                       element |-> Strip(parts[cols.element]),
                       date |-> ParseDate(Strip(parts[cols.date])),
                       values_kwh |-> FitSlots(ParseCells(SubSeq(parts, cols.date + 1, Len(parts))))]]

RECURSIVE ParseLines(_, _)
ParseLines(lines, cols) ==
    IF lines = <<>> THEN [ok |-> TRUE, rows |-> <<>>]
    ELSE LET r == ParseLine(Head(lines), cols)
         IN  IF r.kind = "raise" THEN [ok |-> FALSE, exc |-> r.exc]
             ELSE LET rest == ParseLines(Tail(lines), cols)
                  IN  IF ~rest.ok THEN rest
                      ELSE IF r.kind = "skip" THEN rest
                      ELSE [ok |-> TRUE, rows |-> <<r.row>> \o rest.rows]

\* the text of a response, as its lines, to the rows or the exception
ParseReport(txt) ==
    LET lines == SelectSeq(txt, LAMBDA ln : Strip(ln) # <<>>)
    IN  IF lines = <<>> THEN [ok |-> TRUE, rows |-> <<>>]
        ELSE LET h == ResolveHeader(lines[1])
             IN  IF ~h.ok THEN h ELSE ParseLines(Tail(lines), h.cols)

(***************************************************************************)
(* JSON values: an optional value is <<>> (None, null, a missing key) or   *)
(* <<v>>                                                                   *)
(***************************************************************************)
Nothing == <<>>

Some(v) == <<v>>

\* `x or []`
OrEmpty(o) == IF o = Nothing THEN <<>> ELSE o[1]

\* truth of a string read with .get
Truthy(str) == str # None /\ str # ""

(***************************************************************************)
(* The rate summary of async_get_data (special_incl_dollars)               *)
(***************************************************************************)
\* rates_data.get("special", []) or [], or the AttributeError of a None on the way
Specials(p) ==
    CASE p.shape = "null" -> [ok |-> TRUE, v |-> <<>>]
      [] p.shape = "no_data" -> [ok |-> TRUE, v |-> <<>>]
      [] p.shape = "data_null" -> [ok |-> FALSE, exc |-> "AttributeError"]
      [] p.shape = "ok" -> [ok |-> TRUE, v |-> OrEmpty(p.special)]

\* "Find first entry with a meter_number": its index, 0 when there is none
FirstWithMeter(specials) ==
    IF \E i \in DOMAIN specials : Truthy(specials[i].meter_number)
    THEN CHOOSE i \in DOMAIN specials :
            /\ Truthy(specials[i].meter_number)
            /\ \A j \in 1..(i - 1) : ~Truthy(specials[j].meter_number)
    ELSE 0

\* the loop over the rates without its break: the last rate of the month wins
FirstOfMonth_NoBreak(rates, label) ==
    IF \E i \in DOMAIN rates : rates[i].month = label
    THEN CHOOSE i \in DOMAIN rates :
            /\ rates[i].month = label
            /\ \A j \in (i + 1)..Len(rates) : rates[j].month # label
    ELSE 0

\* "Find rate for current month": the index of the rate the loop breaks at, 0 when none
FirstOfMonth(rates, label) ==
    IF \E i \in DOMAIN rates : rates[i].month = label
    THEN CHOOSE i \in DOMAIN rates :
            /\ rates[i].month = label
            /\ \A j \in 1..(i - 1) : rates[j].month # label
    ELSE 0

\* float(incl_list[0]) / 100.0; a null entry makes float() raise TypeError
CentsToDollars(x) == x \div 100

\* the try block of lines 301-320: the value of special_incl_dollars, or the exception
SpecialIncl(p, label) ==
    LET sp == Specials(p)
    IN  IF ~sp.ok THEN sp
        ELSE LET i == FirstWithMeter(sp.v)
             IN  IF i = 0 THEN [ok |-> TRUE, v |-> Nothing]
                 ELSE LET rates == OrEmpty(sp.v[i].rates)
                          k == FirstOfMonth(rates, label)
                      IN  IF k = 0 THEN [ok |-> TRUE, v |-> Nothing]
                          ELSE LET incl == OrEmpty(rates[k].incl)
                               IN  IF incl = <<>> THEN [ok |-> TRUE, v |-> Nothing]
                                   ELSE IF incl[1] = Nothing
                                   THEN [ok |-> FALSE, exc |-> "TypeError"]
                                   ELSE [ok |-> TRUE, v |-> Some(CentsToDollars(incl[1][1]))]

(***************************************************************************)
(* _verify_response_or_raise and _api_wrapper                              *)
(***************************************************************************)
\* what the transport does with one request: a response with a status, or a failure
Resp(status) == [net |-> "response", status |-> status]

Timeout == [net |-> "timeout"]

ConnError == [net |-> "conn"]

Replies == {Resp(200), Resp(401), Resp(403), Resp(500), Timeout, ConnError}

NoExc == [cls |-> "", msg |-> <<>>]

\* the exception _verify_response_or_raise raises for a status, NoExc when it returns
VerifyResponse(status) ==
    IF status \in {401, 403}
    THEN [cls |-> "PowershopApiClientAuthenticationError", msg |-> <<"Invalid credentials">>]
    ELSE IF status >= 400
    THEN [cls |-> "ClientResponseError", msg |-> <<"status">>]
    ELSE NoExc

\* the exception raised inside the try block of _api_wrapper
RaisedInTry(reply) ==
    CASE reply.net = "timeout" -> [cls |-> "TimeoutError", msg |-> <<>>]
      [] reply.net = "conn" -> [cls |-> "ClientConnectionError", msg |-> <<"connect">>]
      [] reply.net = "response" -> VerifyResponse(reply.status)

\* subclasses of aiohttp.ClientError, and socket.gaierror
ClientErrors == {"ClientResponseError", "ClientConnectionError", "gaierror"}

\* the except clauses of _api_wrapper, in order
ExceptClauses(e) ==
    IF e.cls = "TimeoutError"
    THEN [cls |-> "PowershopApiClientCommunicationError",
          msg |-> <<"Timeout error fetching information - ">> \o e.msg]
    ELSE IF e.cls \in ClientErrors
    THEN [cls |-> "PowershopApiClientCommunicationError",
          msg |-> <<"Error fetching information - ">> \o e.msg]
    ELSE [cls |-> "PowershopApiClientError",
          msg |-> <<"Something really wrong happened! - ">> \o e.msg]

\* one request through _api_wrapper: the JSON body, or the exception it raises
ApiWrapper(reply, body) ==
    LET e == RaisedInTry(reply)
    IN  IF e = NoExc THEN [ok |-> TRUE, body |-> body]
        ELSE [ok |-> FALSE, exc |-> ExceptClauses(e)]

\* a request as sent: the login is unsigned, the others are signed with self._token
LoginRequest == [path |-> "tokens", oauth |-> FALSE, key |-> Nothing]

SignedRequest(path, tok) == [path |-> path, oauth |-> TRUE, key |-> tok]

\* an operation that logs in only when no token is held and signs with the
\* token it holds
ApiCall_CachedToken(tok, loginReply, issued, path, reply, body) ==
    IF tok # Nothing
    THEN LET r == ApiWrapper(reply, body)
         IN  [ok |-> r.ok,
              body |-> IF r.ok THEN Some(r.body) ELSE Nothing,
              exc |-> IF r.ok THEN NoExc ELSE r.exc,
              token |-> tok,
              sent |-> <<SignedRequest(path, tok)>>]
    ELSE LET l == ApiWrapper(loginReply, [data |-> [token |-> issued, secret |-> issued]])
         IN  IF ~l.ok
             THEN [ok |-> FALSE, body |-> Nothing, exc |-> l.exc, token |-> tok,
                   sent |-> <<LoginRequest>>]
             ELSE LET t == Some(l.body.data.token)
                      r == ApiWrapper(reply, body)
                  IN  [ok |-> r.ok,
                       body |-> IF r.ok THEN Some(r.body) ELSE Nothing,
                       exc |-> IF r.ok THEN NoExc ELSE r.exc,
                       token |-> t,
                       sent |-> <<LoginRequest, SignedRequest(path, t)>>]

\* async_login, then the signed request of async_get_accounts,
\* async_get_hourly_usage or async_get_rates
ApiCall(tok, loginReply, issued, path, reply, body) ==
    LET l == ApiWrapper(loginReply, [data |-> [token |-> issued, secret |-> issued]])
    IN  IF ~l.ok
        THEN [ok |-> FALSE, body |-> Nothing, exc |-> l.exc, token |-> tok,
              sent |-> <<LoginRequest>>]
        ELSE LET t == Some(l.body.data.token)
                 r == ApiWrapper(reply, body)
             IN  [ok |-> r.ok,
                  body |-> IF r.ok THEN Some(r.body) ELSE Nothing,
                  exc |-> IF r.ok THEN NoExc ELSE r.exc,
                  token |-> t,
                  sent |-> <<LoginRequest, SignedRequest(path, t)>>]

(***************************************************************************)
(* _web_get_authenticity_token and _web_login                              *)
(***************************************************************************)
\* the login page fetch: the CSRF token found, or None on any failure
PageOutcomes == {"token", "no_input", "failed"}

WebGetAuthenticityToken(page) == IF page = "token" THEN Some("csrf") ELSE Nothing

\* the exception raised inside the try block around the login POST
RaisedInPost(post) ==
    CASE post.net = "timeout" -> [cls |-> "TimeoutError", msg |-> <<>>]
      [] post.net = "conn" -> [cls |-> "ClientConnectionError", msg |-> <<"connect">>]
      [] post.net = "response" -> NoExc

\* `except Exception: pass`: nothing leaves the try statement
WebExcept(e) == NoExc

\* a _web_login without the test of self._web_logged_in at its start
WebLogin_NoShortcut(logged, page, post) ==
    LET tk == WebGetAuthenticityToken(page)
        form == [email |-> "username", password |-> "password", commit |-> "Login",
                 authenticity_token |-> tk]
        okStatus == post.net = "response" /\ 200 <= post.status /\ post.status < 300
    IN  [ret |-> okStatus, logged |-> okStatus, exc |-> WebExcept(RaisedInPost(post)),
         sent |-> <<[url |-> "/", form |-> Nothing],
                    [url |-> "/customer/login", form |-> Some(form)]>>]

\* _web_login: the value returned, self._web_logged_in after it, the exception
\* that leaves it, the requests sent
WebLogin(logged, page, post) ==
    IF logged THEN [ret |-> TRUE, logged |-> TRUE, exc |-> NoExc, sent |-> <<>>]
    ELSE LET tk == WebGetAuthenticityToken(page)
             form == [email |-> "username", password |-> "password", commit |-> "Login",
                      authenticity_token |-> tk]
             okStatus == post.net = "response" /\ 200 <= post.status /\ post.status < 300
         IN  [ret |-> okStatus, logged |-> okStatus, exc |-> WebExcept(RaisedInPost(post)),
              sent |-> <<[url |-> "/", form |-> Nothing],
                         [url |-> "/customer/login", form |-> Some(form)]>>]

\* async_get_usage_report: the rows, or the exception it raises; `parsedText`
\* is ParseReport of the text of the response
GetUsageReport(loginRet, download, parsedText) ==
    IF ~loginRet
    THEN [ok |-> FALSE, exc |-> "PowershopApiClientAuthenticationError"]
    ELSE IF download.net # "response" \/ VerifyResponse(download.status) # NoExc
    THEN [ok |-> FALSE, exc |-> "PowershopApiClientCommunicationError"]
    ELSE parsedText

(***************************************************************************)
(* async_get_data: the pure parts                                          *)
(***************************************************************************)
NoneText == <<None>>    \* None where report text is expected (connection_number)

TruthyText(t) == t # NoneText /\ t # <<>>

\* str(x) of a consumer_id read with .get
PyStr(x) == IF x = None THEN "None" ELSE x

\* dict[k] = v
DictSet(d, k, v) == [x \in DOMAIN d \cup {k} |-> IF x = k THEN v ELSE d[x]]

EmptyDict == <<>>

\* the properties of one account that the loop of lines 276-288 appends
RECURSIVE AccountProperties(_, _)
AccountProperties(account, props) ==
    IF props = <<>> THEN <<>>
    ELSE LET prop == Head(props)
             consumer_id == PyStr(prop.consumer_id)
             rest == AccountProperties(account, Tail(props))
         IN  IF consumer_id = "" THEN rest
             ELSE <<[consumer_id |-> consumer_id,
                     name |-> prop.name,
                     connection_number |-> prop.connection_number,
                     account_number |-> account.number,
                     account_name |-> account.name]>> \o rest

\* "Extract properties across all accounts"
RECURSIVE FlattenProperties(_)
FlattenProperties(accts) ==
    IF accts = <<>> THEN <<>>
    ELSE AccountProperties(Head(accts), Head(accts).properties)
            \o FlattenProperties(Tail(accts))

\* round(v * 1000.0, 3): kWh to Wh, to three decimals
ToWh(v) == (((v * 1000) + 5) \div 10) * 10

\* icp_map: icp -> element -> date -> values_kwh, a later row writing over an earlier one
RECURSIVE IcpMap(_, _)
IcpMap(rows, m) ==
    IF rows = <<>> THEN m
    ELSE LET row == Head(rows)
             icp == row.icp
             elem == row.element
             d == row.date
         IN  IF icp = <<>> \/ elem = <<>> THEN IcpMap(Tail(rows), m)
             ELSE LET byElem == IF icp \in DOMAIN m THEN m[icp] ELSE EmptyDict
                      byDate == IF elem \in DOMAIN byElem THEN byElem[elem] ELSE EmptyDict
                  IN  IcpMap(Tail(rows),
                             DictSet(m, icp, DictSet(byElem, elem, DictSet(byDate, d, row.values_kwh))))

\* sorted(date_map.items()): the dates, ascending
RECURSIVE SortedDates(_)
SortedDates(ds) ==
    IF ds = {} THEN <<>>
    ELSE LET lo == CHOOSE d \in ds : \A e \in ds : d <= e
         IN  <<lo>> \o SortedDates(ds \ {lo})

\* the `out` dict of one property: element -> {"usages": [...]}
ElementsOut(element_map) ==
    [elem_name \in DOMAIN element_map |->
        LET date_map == element_map[elem_name]
            ds == SortedDates(DOMAIN date_map)
        IN  [usages |-> [k \in DOMAIN ds |->
                            [date |-> DateIso(ds[k]),
                             iso8601_date |-> DateIso(ds[k]),
                             usage |-> [j \in DOMAIN date_map[ds[k]] |-> ToWh(date_map[ds[k]][j])]]]]]

\* a loop that leaves out the properties without an element map
RECURSIVE ElementsByProperty_SkipEmpty(_, _, _)
ElementsByProperty_SkipEmpty(props, icp_map, acc) ==
    IF props = <<>> THEN acc
    ELSE LET prop == Head(props)
             icp == prop.connection_number
         IN  IF TruthyText(icp) /\ icp \in DOMAIN icp_map
             THEN ElementsByProperty_SkipEmpty(Tail(props), icp_map,
                        DictSet(acc, prop.consumer_id, ElementsOut(icp_map[icp])))
             ELSE ElementsByProperty_SkipEmpty(Tail(props), icp_map, acc)

\* a loop that keys the element maps by the account instead of the property
RECURSIVE ElementsByProperty_ByAccount(_, _, _)
ElementsByProperty_ByAccount(props, icp_map, acc) ==
    IF props = <<>> THEN acc
    ELSE LET prop == Head(props)
             icp == prop.connection_number
             element_map == IF TruthyText(icp) /\ icp \in DOMAIN icp_map THEN icp_map[icp]
                            ELSE EmptyDict
         IN  ElementsByProperty_ByAccount(Tail(props), icp_map,
                                DictSet(acc, prop.account_number, ElementsOut(element_map)))

\* elements_by_property, over the loop of lines 350-366
RECURSIVE ElementsByProperty(_, _, _)
ElementsByProperty(props, icp_map, acc) ==
    IF props = <<>> THEN acc
    ELSE LET prop == Head(props)
             icp == prop.connection_number
             element_map == IF TruthyText(icp) /\ icp \in DOMAIN icp_map THEN icp_map[icp]
                            ELSE EmptyDict
         IN  ElementsByProperty(Tail(props), icp_map,
                                DictSet(acc, prop.consumer_id, ElementsOut(element_map)))

\* the dict async_get_data returns
Aggregate(props, us, rs, rows, accts) ==
    [properties |-> props,
     usages |-> us,
     rates |-> rs,
     elements |-> ElementsByProperty(props, IcpMap(rows, EmptyDict), EmptyDict),
     raw_accounts |-> accts]

(***************************************************************************)
(* Inputs of a refresh cycle                                               *)
(***************************************************************************)
MaxProps == 2           \* properties in one account listing

Text(a) == <<a>>

\* the properties a listing is made of: with and without consumer_id and
\* connection_number
PropPool ==
    {[consumer_id |-> "c1", name |-> "Home", connection_number |-> Text("i1")],
     [consumer_id |-> "c2", name |-> "Bach", connection_number |-> <<>>],
     [consumer_id |-> None, name |-> "Shed", connection_number |-> Text("i1")],
     [consumer_id |-> None, name |-> "Barn", connection_number |-> NoneText],
     [consumer_id |-> "", name |-> "Gate", connection_number |-> Text("i2")]}

\* the provider gives each property its own consumer_id
DistinctIds(s) ==
    \A i, j \in DOMAIN s :
        (i # j /\ Truthy(s[i].consumer_id)) => s[i].consumer_id # s[j].consumer_id

\* the accounts of a listing: the first property under one account, the rest
\* under a second one
Accounts(s) ==
    <<[number |-> "A1", name |-> "First", properties |-> IF s = <<>> THEN <<>> ELSE <<s[1]>>],
      [number |-> "A2", name |-> "Second", properties |-> SubSeq(s, 2, Len(s))]>>

Listings == {Accounts(s) : s \in {q \in SeqsUpTo(PropPool, MaxProps) : DistinctIds(q)}}

AccountsBody(listing) == [data |-> [accounts |-> listing]]

\* the usages payload the provider returns for a consumer_id
UsageBody(cid) == [data |-> [usages |-> <<cid>>]]

MonthLabels == {"Aug", "Sep"}

Tokens == {"t1"}

Rate(month, incl) == [month |-> month, incl |-> Some(incl)]

Cents(n) == Some(n * 10000)

\* rate payloads of a cycle: the one of the spec's scenario, one without a
\* meter, one of an unexpected shape
CycleRatePayloads ==
    {[shape |-> "ok",
      special |-> Some(<<[meter_number |-> "", rates |-> Some(<<Rate("Aug", <<Cents(99)>>)>>)],
                         [meter_number |-> "M2", rates |-> Some(<<Rate("Aug", <<Cents(25)>>)>>)]>>)],
     [shape |-> "ok", special |-> Nothing],
     [shape |-> "data_null"]}

\* replies to the requests of one property, and to those of the web session
PropReplies == {Resp(200), Resp(403), Timeout}

WebReplies == {Resp(200), Resp(500), Timeout}

\* a line of the report: its cells joined by a delimiter
StdHeader == Join(HeaderNames \o <<Cell("00:30"), Cell("01:00")>>, TAB)

DataLine(icp, elem, date, cells) ==
    Join(<<Text(icp), Text("M1"), Text(elem), Text(date)>> \o cells, TAB)

\* report texts of a cycle: empty, the spec's scenario, several elements and
\* dates with lines of more than 48, of 48, of few, of only blank and of no
\* interval cells, another ICP, a date and a header that do not parse
CycleReports ==
    {<<>>,
     <<StdHeader, DataLine("i1", "Controlled", "5/08/2025", <<Cell("1.0"), Cell("2.5")>>)>>,
     <<StdHeader,
       DataLine("i1", "Controlled", "06/08/2025",
                <<<<>>, Cell("abc")>> \o Rep(Cell("0.75"), NSlots + 1)),
       DataLine("i1", "Uncontrolled", "2025-08-05", <<<<>>, Cell("abc"), Cell("2.5")>>),
       DataLine("i1", "Controlled", "2025-08-04", Rep(Cell("1.0"), NSlots)),
       DataLine("i1", "Uncontrolled", "06/08/2025", <<<<>>>>),
       DataLine("i1", "Controlled", "5/08/2025", <<>>),
       DataLine("i1", "Controlled", "06/08/2025", <<Cell("2.5")>>)>>,
     <<StdHeader, DataLine("i2", "Controlled", "5/08/2025", <<Cell("1.0")>>)>>,
     <<StdHeader, DataLine("i1", "Controlled", "yesterday", <<Cell("1.0")>>)>>,
     <<Join(<<Cell("ICP"), Cell("Date")>>, TAB)>>}

\* what the parser makes of each of these texts
CycleParsed == [txt \in CycleReports |-> ParseReport(txt)]

NotRead == [ok |-> TRUE, rows |-> <<>>]     \* no response text was read

(***************************************************************************)
(* The refresh cycle                                                       *)
(***************************************************************************)
Returned(v) == [raised |-> FALSE, value |-> Some(v), exc |-> NoExc]

Raised(e) == [raised |-> TRUE, value |-> Nothing, exc |-> e]

NoResult == [raised |-> FALSE, value |-> Nothing, exc |-> NoExc]

Init ==
    /\ pc = "idle"
    /\ token = Nothing
    /\ web_logged_in = FALSE
    /\ accounts = Nothing
    /\ accounts_log = <<>>
    /\ month_label = ""
    /\ properties = <<>>
    /\ usages = EmptyDict
    /\ rates_summary = EmptyDict
    /\ idx = 0
    /\ usage_log = <<>>
    /\ rates_log = <<>>
    /\ report_log = Nothing
    /\ csv_rows = <<>>
    /\ result = NoResult
    /\ text = <<>>
    /\ parsed = Nothing
    /\ payload = Nothing
    /\ special = Nothing
    /\ web_calls = <<>>
    /\ api_ops = <<>>

\* the cycle-local variables before the first await of async_get_data
FreshCycle ==
    /\ accounts' = Nothing
    /\ accounts_log' = <<>>
    /\ month_label' = ""
    /\ properties' = <<>>
    /\ usages' = EmptyDict
    /\ rates_summary' = EmptyDict
    /\ idx' = 0
    /\ usage_log' = <<>>
    /\ rates_log' = <<>>
    /\ report_log' = Nothing
    /\ csv_rows' = <<>>

\* async_get_data is called again: only the client's fields outlive a cycle
NewCycle ==
    /\ pc \in {"done", "raised"}
    /\ pc' = "idle"
    /\ result' = NoResult
    /\ FreshCycle
    /\ UNCHANGED <<token, web_logged_in, text, parsed, payload, special, web_calls, api_ops>>

\* the cycle fails in async_get_accounts
AccountsRaise(c, replies) ==
    /\ token' = c.token
    /\ accounts_log' = replies
    /\ pc' = "raised"
    /\ result' = Raised(c.exc)
    /\ UNCHANGED <<accounts, month_label, properties, idx>>

\* lines 270-291 after the listing arrived
AccountsArrive(c, replies, label) ==
    LET props == FlattenProperties(c.body[1].data.accounts)
    IN  /\ token' = c.token
        /\ accounts_log' = replies
        /\ accounts' = c.body
        /\ month_label' = label
        /\ properties' = props
        /\ idx' = 1
        /\ pc' = IF props = <<>> THEN "report" ELSE "usage"
        /\ result' = NoResult

\* accounts = await self.async_get_accounts(), then lines 270-291
GetAccounts ==
    /\ pc = "idle"
    /\ \E loginReply \in Replies, issued \in Tokens :
          IF ~ApiWrapper(loginReply, <<>>).ok
          THEN AccountsRaise(ApiCall(token, loginReply, issued, "accounts", loginReply, <<>>),
                             <<loginReply>>)
          ELSE \E reply \in Replies :
                  IF ~ApiWrapper(reply, <<>>).ok
                  THEN AccountsRaise(ApiCall(token, loginReply, issued, "accounts", reply, <<>>),
                                     <<loginReply, reply>>)
                  ELSE \E listing \in Listings, label \in MonthLabels :
                          AccountsArrive(ApiCall(token, loginReply, issued, "accounts", reply,
                                                 AccountsBody(listing)),
                                         <<loginReply, reply>>, label)
    /\ UNCHANGED <<web_logged_in, usages, rates_summary, usage_log, rates_log, report_log,
                   csv_rows, text, parsed, payload, special, web_calls, api_ops>>

\* lines 293-298: the usage of properties[idx]
FetchUsage ==
    /\ pc = "usage"
    /\ \E loginReply \in PropReplies, issued \in Tokens, reply \in PropReplies :
          LET cid == properties[idx].consumer_id
              c == ApiCall(token, loginReply, issued, "usages", reply, UsageBody(cid))
          IN  /\ token' = c.token
              /\ usages' = DictSet(usages, cid,
                                   IF c.ok THEN c.body[1] ELSE [error |-> c.exc.msg])
              /\ usage_log' = Append(usage_log, [ok |-> c.ok, body |-> c.body, exc |-> c.exc])
    /\ pc' = "rates"
    /\ UNCHANGED <<web_logged_in, accounts, accounts_log, month_label, properties,
                   rates_summary, idx,
                   rates_log, report_log, csv_rows, result, text, parsed, payload, special,
                   web_calls, api_ops>>

\* lines 299-327: the rate summary of properties[idx]
FetchRates ==
    /\ pc = "rates"
    /\ \E loginReply \in PropReplies, issued \in Tokens, reply \in PropReplies,
          p \in CycleRatePayloads :
          LET cid == properties[idx].consumer_id
              c == ApiCall(token, loginReply, issued, "rates", reply, p)
              s == IF c.ok THEN SpecialIncl(c.body[1], month_label)
                   ELSE [ok |-> FALSE, exc |-> c.exc.cls]
              special_incl_dollars == IF s.ok THEN s.v ELSE Nothing
          IN  /\ token' = c.token
              /\ rates_summary' = DictSet(rates_summary, cid,
                     [month_label |-> month_label,
                      special_incl_dollars_current_month |-> special_incl_dollars])
              /\ rates_log' = Append(rates_log,
                     [ok |-> s.ok])
    /\ idx' = idx + 1
    /\ pc' = IF idx < Len(properties) THEN "usage" ELSE "report"
    /\ UNCHANGED <<web_logged_in, accounts, accounts_log, month_label, properties, usages,
                   usage_log,
                   report_log, csv_rows, result, text, parsed, payload, special, web_calls,
                   api_ops>>

\* lines 337-374 with the rows the report path left in csv_rows
ReportDone(w, r) ==
    LET rows == IF r.ok THEN r.rows ELSE <<>>
    IN  /\ web_logged_in' = w.logged
        /\ report_log' = Some([ok |-> r.ok, exc |-> IF r.ok THEN "" ELSE r.exc])
        /\ csv_rows' = rows
        /\ result' = Returned(Aggregate(properties, usages, rates_summary, rows, accounts))

\* what _web_login can do from the present session state
WebLoginRuns ==
    IF web_logged_in THEN {WebLogin(TRUE, "failed", Timeout)}
    ELSE {WebLogin(FALSE, page, post) : page \in PageOutcomes, post \in WebReplies}

\* lines 329-374: the usage report, the element series and the return
FetchReport ==
    /\ pc = "report"
    /\ \E w \in WebLoginRuns :
          IF ~w.ret THEN ReportDone(w, GetUsageReport(w.ret, Timeout, NotRead))
          ELSE \E download \in WebReplies :
                  IF ~GetUsageReport(w.ret, download, NotRead).ok
                  THEN ReportDone(w, GetUsageReport(w.ret, download, NotRead))
                  ELSE \E txt \in CycleReports :
                          ReportDone(w, GetUsageReport(w.ret, download, CycleParsed[txt]))
    /\ pc' = "done"
    /\ UNCHANGED <<token, accounts, accounts_log, month_label, properties, usages,
                   rates_summary, idx,
                   usage_log, rates_log, text, parsed, payload, special, web_calls, api_ops>>

Next == GetAccounts \/ FetchUsage \/ FetchRates \/ FetchReport \/ NewCycle

Spec == Init /\ [][Next]_vars

(***************************************************************************)
(* The parser on its own: ParseReport applied to report texts              *)
(***************************************************************************)
MaxLines == 2           \* data lines of a report text
MaxExtra == 1           \* interval cells of a line past the 48th

Blank == <<>>

\* the cells a line starts and ends its interval cells with
EdgePool ==
    {<<>>, <<Blank>>, <<Cell("abc")>>, <<Cell("2.5")>>, <<<<SP>>, Cell("0.75")>>,
     <<Cell("abc"), Blank>>, <<Blank, Cell("abc")>>}

\* how many cells holding 1.0 lie between them
FillCounts == {0, 1} \cup ((NSlots - 2)..(NSlots + MaxExtra))

\* one-line reports, the line with few, 48 and more than 48 interval cells
LongLineTexts ==
    {<<StdHeader,
       Join(<<Text("i1"), Text("M1"), Text("Controlled"), Text("5/08/2025")>>
              \o pre \o Rep(Cell("1.0"), k) \o post, TAB)>> :
        pre \in EdgePool, k \in FillCounts, post \in EdgePool}

\* short data lines: parsed, dropped, with a date that does not parse, with
\* commas, with padding, blank, without ICP, with the date in the first column
LinePool ==
    {DataLine("i1", "Controlled", "5/08/2025", <<Cell("1.0"), Cell("2.5")>>),
     DataLine("i2", "Uncontrolled", "2025-08-04", <<Cell("abc"), Blank, Cell("0.75")>>),
     Join(<<Text("i1"), Text("M1"), Text("Controlled"), Text("5/08/2025")>>, TAB),
     DataLine("i1", "Controlled", "yesterday", <<Cell("1.0")>>),
     Join(<<Text("i1"), Text("M1"), Text("Controlled"), Text("06/08/2025"), Cell("2.5")>>, COMMA),
     Join(<<<<SP, "i1">>, Text("M1"), <<"Controlled", SP>>, Text("06/08/2025"),
            <<SP, "2.5", SP>>, <<"1", COMMA, "0">>>>, TAB),
     <<SP, TAB, SP>>,
     Join(<<Blank, Text("M1"), Text("Controlled"), Text("5/08/2025"), Cell("1.0")>>, TAB),
     Join(<<Text("5/08/2025"), Text("i1")>>, TAB),
     Join(<<Text("5/08/2025"), Text("i1"), Text("M1"), Text("Controlled"), Cell("1.0")>>, TAB)}

\* header lines: by tab, by comma, with Date as the first column, without a
\* required column
HeaderPool ==
    {StdHeader,
     Join(HeaderNames \o <<Cell("00:30")>>, COMMA),
     Join(<<Cell("Date"), Cell("ICP"), Cell("Meter number"), Cell("Meter element")>>, TAB),
     Join(<<Cell("ICP"), Cell("Date")>>, TAB)}

ShortLineTexts == {<<h>> \o ls : h \in HeaderPool, ls \in SeqsUpTo(LinePool, MaxLines)}

ParseInputs == {<<>>} \cup ShortLineTexts \cup LongLineTexts

CycleIdle ==
    /\ token = Nothing
    /\ web_logged_in = FALSE
    /\ accounts = Nothing
    /\ accounts_log = <<>>
    /\ month_label = ""
    /\ properties = <<>>
    /\ usages = EmptyDict
    /\ rates_summary = EmptyDict
    /\ idx = 0
    /\ usage_log = <<>>
    /\ rates_log = <<>>
    /\ report_log = Nothing
    /\ csv_rows = <<>>
    /\ result = NoResult

cycleVars == <<token, web_logged_in, accounts, accounts_log, month_label, properties, usages,
               rates_summary, idx, usage_log, rates_log, report_log, csv_rows, result>>

InitParse ==
    /\ pc = "parse"
    /\ CycleIdle
    /\ text \in ParseInputs
    /\ parsed = Nothing
    /\ payload = Nothing
    /\ special = Nothing
    /\ web_calls = <<>>
    /\ api_ops = <<>>

\* lines 200-259 of async_get_usage_report on the text of the response
ParseText ==
    /\ pc = "parse"
    /\ parsed' = Some(ParseReport(text))
    /\ pc' = "parsed"
    /\ UNCHANGED <<cycleVars, text, payload, special, web_calls, api_ops>>

NextParse == ParseText

SpecParse == InitParse /\ [][NextParse]_vars

(***************************************************************************)
(* The rate summary on its own: SpecialIncl applied to rate payloads       *)
(***************************************************************************)
MaxSpecials == 2        \* entries of the `special` list

\* the `rates` of an entry of `special`: missing, with the month first,
\* second, twice, not at all, with `incl` empty, missing or holding a null
RateListPool ==
    {Nothing,
     Some(<<Rate("Aug", <<Cents(25)>>)>>),
     Some(<<Rate("Aug", <<Cents(30)>>)>>),
     Some(<<Rate("Sep", <<Cents(30)>>), Rate("Aug", <<Cents(25), Cents(99)>>)>>),
     Some(<<Rate("Aug", <<>>), Rate("Aug", <<Cents(25)>>)>>),
     Some(<<Rate("Sep", <<Cents(30)>>)>>),
     Some(<<[month |-> "Aug", incl |-> Nothing], Rate("Sep", <<Cents(30)>>)>>),
     Some(<<Rate("Aug", <<Nothing, Cents(25)>>)>>)}

MeterNumbers == {None, "", "M1", "M2"}

SpecialEntries == {[meter_number |-> m, rates |-> r] : m \in MeterNumbers, r \in RateListPool}

RatePayloads ==
    {[shape |-> "null"], [shape |-> "no_data"], [shape |-> "data_null"],
     [shape |-> "ok", special |-> Nothing]}
    \cup {[shape |-> "ok", special |-> Some(sp)] : sp \in SeqsUpTo(SpecialEntries, MaxSpecials)}

InitRates ==
    /\ pc = "rate"
    /\ CycleIdle
    /\ text = <<>>
    /\ parsed = Nothing
    /\ payload \in {Some([body |-> p, label |-> l]) : p \in RatePayloads, l \in MonthLabels}
    /\ special = Nothing
    /\ web_calls = <<>>
    /\ api_ops = <<>>

\* lines 300-323 on a rate payload that arrived
ExtractRate ==
    /\ pc = "rate"
    /\ LET s == SpecialIncl(payload[1].body, payload[1].label)
       IN  special' = Some([raised |-> ~s.ok, v |-> IF s.ok THEN s.v ELSE Nothing])
    /\ pc' = "rated"
    /\ UNCHANGED <<cycleVars, text, parsed, payload, web_calls, api_ops>>

NextRates == ExtractRate

SpecRates == InitRates /\ [][NextRates]_vars

(***************************************************************************)
(* Properties of the refresh cycle                                         *)
(***************************************************************************)
\* the dict the finished cycle returned
Agg == result.value[1]

Cid(i) == properties[i].consumer_id

Keys(d) == DOMAIN d

\* what the usage fetch of properties[i] came to
UsageOutcome(i) ==
    IF usage_log[i].ok THEN usage_log[i].body[1] ELSE [error |-> usage_log[i].exc.msg]

\* the rates entry of a property whose rate fetch or extraction failed
NoRate == [month_label |-> month_label, special_incl_dollars_current_month |-> Nothing]

\* properties[i] has a connection_number that is the ICP of a parsed row
Matched(i) ==
    /\ TruthyText(properties[i].connection_number)
    /\ \E k \in DOMAIN csv_rows : csv_rows[k].icp = properties[i].connection_number

ReportFailed == report_log # Nothing /\ ~report_log[1].ok

\* C1: when the usage fetch of a property P fails, the cycle still returns an
\* Aggregate; every property of the listing is in `properties`; every other
\* property's usages entry is what its own fetch came to; usages[P] is the
\* error marker of P's failure.
C1_UsageFailureIsolated ==
    pc = "done" =>
        \A p \in DOMAIN properties :
            ~usage_log[p].ok =>
                /\ ~result.raised
                /\ result.value # Nothing
                /\ \A q \in DOMAIN properties :
                        \E k \in DOMAIN Agg.properties : Agg.properties[k] = properties[q]
                /\ Cid(p) \in Keys(Agg.usages)
                /\ Agg.usages[Cid(p)] = [error |-> usage_log[p].exc.msg]
                /\ \A q \in DOMAIN properties \ {p} :
                        /\ Cid(q) \in Keys(Agg.usages)
                        /\ Agg.usages[Cid(q)] = UsageOutcome(q)

\* C2: when the accounts request is answered 401 or 403, the cycle raises
\* PowershopApiClientAuthenticationError, returns no Aggregate and fetches
\* nothing for any property.
C2_AccountsAuthError ==
    (Len(accounts_log) = 2 /\ accounts_log[2] \in {Resp(401), Resp(403)}) =>
        /\ pc = "raised"
        /\ result.raised
        /\ result.exc.cls = "PowershopApiClientAuthenticationError"
        /\ result.value = Nothing
        /\ usage_log = <<>> /\ rates_log = <<>> /\ report_log = Nothing

\* C3: when the report download or parse fails, the cycle still returns an
\* Aggregate; elements has an entry for every property and each is the empty
\* map; properties, usages and rates are what the loop over the properties
\* computed.
C3_ReportFailureKeepsCycle ==
    (pc = "done" /\ ReportFailed) =>
        /\ ~result.raised
        /\ result.value # Nothing
        /\ \A i \in DOMAIN properties :
                /\ Cid(i) \in Keys(Agg.elements)
                /\ Agg.elements[Cid(i)] = EmptyDict
        /\ Agg.properties = properties
        /\ Agg.usages = usages
        /\ Agg.rates = rates_summary
        /\ \A i \in DOMAIN properties :
                /\ Cid(i) \in Keys(Agg.usages)
                /\ Cid(i) \in Keys(Agg.rates)

C3_Witness ==
    /\ pc = "done"
    /\ ReportFailed
    /\ report_log[1].exc = "ValueError"
    /\ Len(properties) = MaxProps
    /\ Cardinality(Keys(Agg.usages)) = MaxProps
    /\ \E i \in DOMAIN properties : usage_log[i].ok /\ properties[i].connection_number = Text("i1")
    /\ \E i \in DOMAIN properties : ~usage_log[i].ok

\* C4: in the Aggregate a cycle returns, every key of usages, of rates and of
\* elements is the consumer_id of an entry of properties.
C4_KeysAreProperties ==
    (pc = "done" /\ result.value # Nothing) =>
        Keys(Agg.usages) \cup Keys(Agg.rates) \cup Keys(Agg.elements)
            \subseteq {Agg.properties[i].consumer_id : i \in DOMAIN Agg.properties}

C4_Witness ==
    /\ pc = "done"
    /\ Len(Agg.properties) = MaxProps
    /\ Cardinality(Keys(Agg.elements)) = MaxProps
    /\ \E i \in DOMAIN properties : ~usage_log[i].ok
    /\ \E i \in DOMAIN properties : rates_log[i].ok
    /\ \E i \in DOMAIN properties : Agg.elements[Cid(i)] # EmptyDict

\* C5: a property whose connection_number is absent, empty or the ICP of no
\* parsed report row has the empty element map as its elements entry, never
\* a missing entry.
C5_NoMatchEmptyElements ==
    (pc = "done" /\ result.value # Nothing) =>
        \A i \in DOMAIN properties :
            ~Matched(i) =>
                /\ Cid(i) \in Keys(Agg.elements)
                /\ Agg.elements[Cid(i)] = EmptyDict

\* C6: every row the report parser returned has a values_kwh of exactly 48
\* entries, and every usage list of every element series of the Aggregate
\* has exactly 48 entries.
C6_FortyEightSlots ==
    /\ \A k \in DOMAIN csv_rows : Len(csv_rows[k].values_kwh) = NSlots
    /\ (pc = "done" /\ result.value # Nothing) =>
            \A c \in Keys(Agg.elements) :
                \A e \in Keys(Agg.elements[c]) :
                    \A k \in DOMAIN Agg.elements[c][e].usages :
                        Len(Agg.elements[c][e].usages[k].usage) = NSlots

C6_Witness ==
    /\ pc = "done"
    /\ Len(csv_rows) = 5
    /\ \E k \in DOMAIN csv_rows : csv_rows[k].values_kwh = Rep(0, NSlots)
    /\ \E c \in Keys(Agg.elements) :
            /\ Cardinality(Keys(Agg.elements[c])) = 2
            /\ \E e \in Keys(Agg.elements[c]) : Len(Agg.elements[c][e].usages) = 2

\* C9: when the rate fetch or extraction of a property P fails, rates[P] is
\* present, carries the month label and a special_incl_dollars_current_month
\* of None, and the cycle returns.
C9_RateFailureIsolated ==
    pc = "done" =>
        \A p \in DOMAIN properties :
            ~rates_log[p].ok =>
                /\ ~result.raised
                /\ result.value # Nothing
                /\ Cid(p) \in Keys(Agg.rates)
                /\ Agg.rates[Cid(p)] = NoRate

(***************************************************************************)
(* Properties of the parser                                                *)
(***************************************************************************)
ParsedOk == pc = "parsed" /\ parsed[1].ok

\* the lines the parser reads, the first being the header
TextLines == SelectSeq(text, LAMBDA ln : Strip(ln) # <<>>)

Cols == ResolveHeader(TextLines[1]).cols

\* the lines after the header, and whether a line has a cell after the Date column
BodyLines == Tail(TextLines)

HasIntervals(ln) == Len(SplitLine(ln)) > Cols.date

\* the data lines: those the parser makes rows of
DataLines == SelectSeq(BodyLines, HasIntervals)

\* the cells after the Date column
IntervalCells(ln) == SubSeq(SplitLine(ln), Cols.date + 1, Len(SplitLine(ln)))

IsBlank(c) == Strip(c) = <<>>

NotANumber(c) == ~IsBlank(c) /\ ~IsNumeric(Strip(c))

\* the value of a cell: its number, 0.0 when it is not one
CellValue(c) == IF IsNumeric(Strip(c)) THEN FloatOf(Strip(c)) ELSE 0

\* the position of cell i among the non-blank cells
Pos(cells, i) == Cardinality({m \in 1..i : ~IsBlank(cells[m])})

Rows == parsed[1].rows

\* C7 as stated: a data line of n < 48 interval cells gives those n values in
\* order and then 48 - n zeros; one of more than 48 gives the values of its
\* first 48 interval cells.
C7_CellsKeepPosition ==
    (ParsedOk /\ TextLines # <<>>) =>
        /\ Len(Rows) = Len(DataLines)
        /\ \A j \in DOMAIN DataLines :
                LET cells == IntervalCells(DataLines[j])
                    n == Len(cells)
                    vals == Rows[j].values_kwh
                IN  /\ n < NSlots =>
                            /\ Len(vals) = NSlots
                            /\ \A k \in 1..n : vals[k] = CellValue(cells[k])
                            /\ \A k \in (n + 1)..NSlots : vals[k] = 0
                    /\ n > NSlots =>
                            /\ Len(vals) = NSlots
                            /\ \A k \in 1..NSlots : vals[k] = CellValue(cells[k])

\* C7: blank interval cells are skipped and take no position; a data line of
\* n < 48 non-blank interval cells gives those n values in order (0.0 for a
\* cell that is not a number) and then 48 - n zeros; one of more than 48
\* gives the values of its first 48 non-blank interval cells.
C7_NonBlankCellsInOrder ==
    (ParsedOk /\ TextLines # <<>>) =>
        /\ Len(Rows) = Len(DataLines)
        /\ \A j \in DOMAIN DataLines :
                LET cells == IntervalCells(DataLines[j])
                    n == Pos(cells, Len(cells))
                    vals == Rows[j].values_kwh
                IN  /\ Len(vals) = NSlots
                    /\ \A i \in DOMAIN cells :
                            (~IsBlank(cells[i]) /\ Pos(cells, i) <= NSlots) =>
                                vals[Pos(cells, i)] = CellValue(cells[i])
                    /\ \A k \in (n + 1)..NSlots : vals[k] = 0

\* a line of a blank interval cell, 48 cells of 1.0 and a 50th cell of 2.5
C7_Witness ==
    /\ ParsedOk
    /\ Len(Rows) = 1
    /\ LET cells == IntervalCells(DataLines[1])
       IN  /\ IsBlank(cells[1])
           /\ Pos(cells, Len(cells)) > NSlots
           /\ cells[Len(cells)] = Cell("2.5")
           /\ Rows[1].values_kwh = Rep(10000, NSlots)

\* the text with the cell in column col of body line j holding 0
ZeroCell(j, col) ==
    LET ln == BodyLines[j]
        d == IF TAB \in Range(ln) THEN TAB ELSE COMMA
    IN  <<TextLines[1]>>
            \o [m \in DOMAIN BodyLines |->
                    IF m = j THEN Join([SplitLine(ln) EXCEPT ![col] = Cell("0")], d)
                    ELSE BodyLines[m]]

\* a row without what it read from column col
Without(row, col) ==
    [icp |-> IF col = Cols.icp THEN <<>> ELSE row.icp,
     meter_number |-> IF col = Cols.meter THEN <<>> ELSE row.meter_number,
     element |-> IF col = Cols.element THEN <<>> ELSE row.element,
     date |-> row.date,
     values_kwh |-> row.values_kwh]

\* the row made of body line j
RowOf(j) == Cardinality({m \in 1..j : HasIntervals(BodyLines[m])})

\* the report parses as it would with 0 in column col of body line j
AsIfZero(j, col) ==
    LET z == ParseReport(ZeroCell(j, col))
    IN  /\ z.ok = parsed[1].ok
        /\ ~z.ok => z.exc = parsed[1].exc
        /\ z.ok =>
                /\ Len(z.rows) = Len(Rows)
                /\ \A m \in DOMAIN Rows :
                        IF m = RowOf(j) THEN Without(z.rows[m], col) = Without(Rows[m], col)
                        ELSE z.rows[m] = Rows[m]

HeaderRead == pc = "parsed" /\ TextLines # <<>> /\ ResolveHeader(TextLines[1]).ok

Least(S) == CHOOSE i \in S : \A j \in S : i <= j

\* C10: the rate summary is read from the first entry of `special` with a
\* non-empty meter_number and from no other: the first value of the incl
\* list of its first rate of the current month, divided by 100 (25 gives
\* 0.25); None when no entry has a meter_number, when that entry has no rate
\* of the month, or when that rate's incl list is empty or starts with a null.
C10_RateFromFirstMeterEntry ==
    pc = "rated" =>
        LET p == payload[1].body
            label == payload[1].label
            sp == IF p.shape = "ok" THEN OrEmpty(p.special) ELSE <<>>
            withMeter == {i \in DOMAIN sp : sp[i].meter_number \notin {None, ""}}
            v == special[1].v
        IN  IF withMeter = {} THEN v = Nothing
            ELSE LET rs == OrEmpty(sp[Least(withMeter)].rates)
                     ofMonth == {k \in DOMAIN rs : rs[k].month = label}
                 IN  IF ofMonth = {} THEN v = Nothing
                     ELSE LET incl == OrEmpty(rs[Least(ofMonth)].incl)
                          IN  IF incl = <<>> \/ incl[1] = Nothing THEN v = Nothing
                              ELSE v # Nothing /\ v[1] * 100 = incl[1][1]

\* the spec's scenario: a first entry without a meter, 25 cents in the second
C10_Witness ==
    /\ pc = "rated"
    /\ payload[1].label = "Aug"
    /\ payload[1].body.shape = "ok"
    /\ payload[1].body.special =
            Some(<<[meter_number |-> "", rates |-> Some(<<Rate("Aug", <<Cents(30)>>)>>)],
                   [meter_number |-> "M2", rates |-> Some(<<Rate("Aug", <<Cents(25)>>)>>)]>>)
    /\ special = Some([raised |-> FALSE, v |-> Some(2500)])

(***************************************************************************)
(* Properties of the flattening of the account listing                     *)
(***************************************************************************)
\* the properties of the listing, account by account
RECURSIVE ListedProperties(_)
ListedProperties(accts) ==
    IF accts = <<>> THEN <<>>
    ELSE Head(accts).properties \o ListedProperties(Tail(accts))

\* the listed property has a consumer_id: the field is not missing, null or empty
HasId(prop) == prop.consumer_id \notin {None, ""}

\* C11: a listed property without consumer_id (missing, null or empty) gives
\* no entry of `properties`, no usage or rate request and no key of usages,
\* rates or elements; every property with a consumer_id gives exactly one
\* entry, in listing order.
C11_IdlessSkipped ==
    accounts # Nothing =>
        LET withId == SelectSeq(ListedProperties(accounts[1].data.accounts), HasId)
            ids == {withId[i].consumer_id : i \in DOMAIN withId}
        IN  /\ Len(properties) = Len(withId)
            /\ \A i \in DOMAIN withId :
                    /\ properties[i].consumer_id = withId[i].consumer_id
                    /\ properties[i].name = withId[i].name
            /\ Len(usage_log) <= Len(withId)
            /\ Len(rates_log) <= Len(withId)
            /\ Keys(usages) \cup Keys(rates_summary) \subseteq ids
            /\ (pc = "done" /\ result.value # Nothing) => Keys(Agg.elements) \subseteq ids

(***************************************************************************)
(* Properties of the lines of the report                                   *)
(***************************************************************************)
\* C12: a data line is dropped exactly when it has no more fields than the
\* index of the first interval column; every other data line gives exactly
\* one row, in input order; and a line whose icp, meter, element or date
\* field cannot be resolved does not make the parse of the report fail.
C12_OnlyShortLinesDropped ==
    HeaderRead =>
        /\ parsed[1].ok
        /\ Len(Rows) = Len(DataLines)
        /\ \A j \in DOMAIN DataLines :
                LET parts == SplitLine(DataLines[j])
                IN  /\ Cols.icp <= Len(parts) => Rows[j].icp = Strip(parts[Cols.icp])
                    /\ Cols.element <= Len(parts) =>
                            Rows[j].element = Strip(parts[Cols.element])
                    /\ Len(Rows[j].values_kwh) = NSlots

(***************************************************************************)
(* The web session on its own: _web_login called again and again           *)
(***************************************************************************)
MaxCalls == 3           \* calls of _web_login

\* what the login POST can meet: statuses in and out of 2xx, a timeout, a
\* connection error
WebPostReplies == {Resp(st) : st \in {200, 204, 301, 401, 500}} \cup {Timeout, ConnError}

InitWeb ==
    /\ pc = "web"
    /\ CycleIdle
    /\ text = <<>>
    /\ parsed = Nothing
    /\ payload = Nothing
    /\ special = Nothing
    /\ web_calls = <<>>
    /\ api_ops = <<>>

\* one call of _web_login, recorded with the session state before and after
\* it and the answers its requests got
WebCall(w, answers) ==
    /\ web_logged_in' = w.logged
    /\ web_calls' = Append(web_calls,
            [before |-> web_logged_in, answers |-> answers, ret |-> w.ret, exc |-> w.exc,
             after |-> w.logged, sent |-> w.sent])

\* await self._web_login()
CallWebLogin ==
    /\ pc = "web"
    /\ Len(web_calls) < MaxCalls
    /\ \E page \in PageOutcomes, post \in WebPostReplies :
          LET w == WebLogin(web_logged_in, page, post)
          IN  WebCall(w, IF w.sent = <<>> THEN <<>> ELSE <<[page |-> page, post |-> post]>>)
    /\ UNCHANGED <<pc, token, accounts, accounts_log, month_label, properties, usages,
                   rates_summary, idx, usage_log, rates_log, report_log, csv_rows, result,
                   text, parsed, payload, special, api_ops>>

NextWeb == CallWebLogin

SpecWeb == InitWeb /\ [][NextWeb]_vars

\* the login POST of the call got a 2xx status
Got2xx(c) ==
    /\ c.answers # <<>>
    /\ c.answers[1].post.net = "response"
    /\ c.answers[1].post.status \in 200..299

\* C13: _web_login never raises and returns a boolean; it returns true and
\* leaves the session logged in exactly when the session was logged in
\* before or the POST got a 2xx status, otherwise it returns false and
\* leaves the session not logged in; once the session is logged in, every
\* later call returns true without sending a request.
C13_WebLoginBoolean ==
    /\ \A k \in DOMAIN web_calls :
            LET c == web_calls[k]
            IN  /\ c.exc = NoExc
                /\ c.ret \in BOOLEAN
                /\ c.before = (IF k = 1 THEN FALSE ELSE web_calls[k - 1].after)
                /\ c.ret = (c.before \/ Got2xx(c))
                /\ c.after = c.ret
                /\ c.before => c.sent = <<>>
                /\ ~c.before => Len(c.sent) = 2
                /\ (\E j \in 1..(k - 1) : web_calls[j].ret) => (c.ret /\ c.sent = <<>>)
    /\ web_calls # <<>> => web_logged_in = web_calls[Len(web_calls)].after

\* a call that fails without CSRF token on a timeout, one that logs in with a
\* 204, one that returns true without a request
C13_Witness ==
    /\ Len(web_calls) >= 3
    /\ web_calls[1].answers = <<[page |-> "no_input", post |-> Timeout]>>
    /\ ~web_calls[1].ret
    /\ web_calls[2].answers = <<[page |-> "failed", post |-> Resp(204)]>>
    /\ web_calls[2].ret
    /\ web_calls[3].ret /\ web_calls[3].sent = <<>>
    /\ web_logged_in

(***************************************************************************)
(* The token session on its own: API operations one after another          *)
(***************************************************************************)
MaxOps == 2             \* token-API operations

\* the token and secret pairs the provider issues
ApiTokens == {"t1", "t2"}

\* async_get_accounts, async_get_hourly_usage, async_get_rates
ApiPaths == {"accounts", "usages", "rates"}

InitApi ==
    /\ pc = "api"
    /\ CycleIdle
    /\ text = <<>>
    /\ parsed = Nothing
    /\ payload = Nothing
    /\ special = Nothing
    /\ web_calls = <<>>
    /\ api_ops = <<>>

\* one operation, recorded with self._token before and after it, the reply
\* its login got, the pair the login returned and the requests it sent
ApiOp(path, loginReply, issued, c) ==
    /\ token' = c.token
    /\ api_ops' = Append(api_ops,
            [path |-> path, before |-> token, login |-> loginReply, issued |-> issued,
             ok |-> c.ok, sent |-> c.sent, after |-> c.token])

\* await self.async_get_accounts() / async_get_hourly_usage(cid) / async_get_rates(cid)
CallApi ==
    /\ pc = "api"
    /\ Len(api_ops) < MaxOps
    /\ \E path \in ApiPaths, loginReply \in Replies :
          IF ~ApiWrapper(loginReply, <<>>).ok
          THEN ApiOp(path, loginReply, Nothing,
                     ApiCall(token, loginReply, "t1", path, loginReply, [data |-> path]))
          ELSE \E issued \in ApiTokens, reply \in Replies :
                  ApiOp(path, loginReply, Some(issued),
                        ApiCall(token, loginReply, issued, path, reply, [data |-> path]))
    /\ UNCHANGED <<pc, web_logged_in, accounts, accounts_log, month_label, properties, usages,
                   rates_summary, idx, usage_log, rates_log, report_log, csv_rows, result,
                   text, parsed, payload, special, web_calls>>

NextApi == CallApi

SpecApi == InitApi /\ [][NextApi]_vars

\* the login of the operation was answered with a status below 400
LoginSucceeded(op) == op.login.net = "response" /\ op.login.status < 400

\* C14: the login request (POST tokens) is the only unsigned token-API
\* request; every other request is sent after a login that succeeded earlier
\* in the same operation and is signed with the pair that login returned;
\* when the login fails the operation fails without its signed request; so
\* no signed request carries an absent token or one older than the latest
\* successful login.
C14_SignedAfterLogin ==
    /\ \A k \in DOMAIN api_ops :
            LET op == api_ops[k]
            IN  /\ op.before = (IF k = 1 THEN Nothing ELSE api_ops[k - 1].after)
                /\ \A i \in DOMAIN op.sent : (~op.sent[i].oauth) <=> (op.sent[i].path = "tokens")
                /\ \A i \in DOMAIN op.sent :
                        op.sent[i].oauth =>
                            /\ LoginSucceeded(op)
                            /\ \E j \in 1..(i - 1) : op.sent[j].path = "tokens"
                            /\ op.sent[i].path = op.path
                            /\ op.sent[i].key # Nothing
                            /\ op.sent[i].key = op.issued
                            /\ op.sent[i].key = op.after
                /\ ~LoginSucceeded(op) =>
                        /\ ~op.ok
                        /\ \A i \in DOMAIN op.sent : ~op.sent[i].oauth
                        /\ op.after = op.before
                /\ LoginSucceeded(op) => (op.after = op.issued /\ Len(op.sent) = 2)
    /\ api_ops # <<>> => token = api_ops[Len(api_ops)].after

\* an operation signed with the pair of its login, then one whose login is
\* answered 401: nothing signed is sent and the old pair is still held
C14_Witness ==
    /\ Len(api_ops) >= 2
    /\ api_ops[1].ok
    /\ api_ops[1].sent = <<LoginRequest, SignedRequest(api_ops[1].path, Some("t2"))>>
    /\ api_ops[2].login = Resp(401)
    /\ ~api_ops[2].ok
    /\ api_ops[2].sent = <<LoginRequest>>
    /\ token = Some("t2")

====
